---- MODULE Spec2Model ----
(***************************************************************************)
(* Model of two platform adapters of mpv:                                  *)
(*   video/out/gpu/d3d11_helpers.c   device / swapchain negotiation and    *)
(*                                   front buffer capture                  *)
(*   video/out/opengl/hwdec_osx.c    VideoToolbox frame -> GL texture map  *)
(* Each adapter has its own specification (SpecDev, ...); the variables of *)
(* the adapters that a specification does not exercise stay at their       *)
(* initial value.                                                          *)
(***************************************************************************)
EXTENDS Integers, Sequences, FiniteSets, TLC

VARIABLES
    \* ---- mp_d3d11_create_present_device
    opts,        \* struct d3d11_device_opts of the call
    loaded,      \* pD3D11CreateDevice != NULL after d3d11_load
    dpc,         \* position in the call: "start", "loop", "post", "done"
    warp, bgra, max_fl, min_fl,   \* the locals of the same names
    hr,          \* the local hr
    dev,         \* the created device (NoDev when none)
    success,     \* the return value
    dev_out,     \* *dev_out
    attempts,    \* history: the create_device calls made, in order
    steps,       \* history: the fallback steps taken, in order, each with
                 \* the driver type and max level it was taken from
    lastErr,     \* history: hr of the last failed create_device
    reported,    \* the error code of the final mp_fatal ("none" if not logged)
    \* ---- mp_d3d11_create_swapchain
    sopts,       \* struct d3d11_swapchain_opts of the call
    spc,         \* position in the call: "start", "loop", "post", "done"
    factory2,    \* factory2 != NULL (DXGI 1.2 available)
    flip,        \* the local flip
    shr,         \* the local hr
    swapchain,   \* the local swapchain (NoSwapchain when NULL)
    swapchain_out, \* *swapchain_out
    ssuccess,    \* the return value
    sattempts,   \* history: the swapchain creation attempts, in order
    \* ---- mp_d3d11_screenshot
    shot_sc,     \* the swapchain argument: its description and front buffer
    shpc,        \* position in the call: "start", "frontbuffer", "staging",
                 \* "map", "copy", "cleanup", "returned"
    refs,        \* references the call holds: object -> 0 or 1
    released,    \* history: Release calls made by the call, per object
    fmt,         \* the local fmt
    staged,      \* history: CreateTexture2D made a staging texture
    copied,      \* history: CopyResource was performed
    mapped,      \* the staging texture is mapped
    img,         \* the local img (NoImage when NULL)
    ret,         \* the returned image
    \* ---- hwdec_osx: create / map_frame / destroy
    hwpc,        \* the adapter: "none", "created", "aborted" (assert), "destroyed"
    gl_planes,   \* p->gl_planes, slot i of the source is index i + 1
    pbuf,        \* p->pbuf: the buffer the adapter retains (0 is NULL)
    glTextures,  \* GL: the texture names that exist
    texSurface,  \* GL: texture name -> buffer whose surface it is bound to
                 \* (0: bound to no surface)
    retained,    \* buffer -> retains by the adapter not yet released
    out_frame,   \* the out_frame of the last map_frame call
    map_ret,     \* the return value of the last create / map_frame call
    last_op,     \* history: the last call made
    last_call,   \* history: the buffer of the last map_frame: surface, pixel
                 \* format, and planar / planes as far as they were read
    genNames,    \* history: the names GenTextures gave the last create
    mapCount     \* history: successful map_frame calls since create (saturating)

devVars == <<opts, loaded, dpc, warp, bgra, max_fl, min_fl, hr, dev, success,
             dev_out, attempts, steps, lastErr, reported>>

swapVars == <<sopts, spc, factory2, flip, shr, swapchain, swapchain_out,
              ssuccess, sattempts>>

shotVars == <<shot_sc, shpc, refs, released, fmt, staged, copied, mapped,
              img, ret>>

mapVars == <<hwpc, gl_planes, pbuf, glTextures, texSurface, retained,
             out_frame, map_ret, last_op, last_call, genNames, mapCount>>

vars == <<devVars, swapVars, shotVars, mapVars>>

otherThanDev == <<swapVars, shotVars, mapVars>>
otherThanSwap == <<devVars, shotVars, mapVars>>
otherThanShot == <<devVars, swapVars, mapVars>>
otherThanMap == <<devVars, swapVars, shotVars>>

(***************************************************************************)
(* D3D_FEATURE_LEVEL values (d3dcommon.h), as used by levels[].            *)
(***************************************************************************)
D3D_FEATURE_LEVEL_12_1 == 49408
D3D_FEATURE_LEVEL_12_0 == 49152
D3D_FEATURE_LEVEL_11_1 == 45312
D3D_FEATURE_LEVEL_11_0 == 45056
D3D_FEATURE_LEVEL_10_1 == 41216
D3D_FEATURE_LEVEL_10_0 == 40960
D3D_FEATURE_LEVEL_9_3 == 37632
D3D_FEATURE_LEVEL_9_2 == 37376
D3D_FEATURE_LEVEL_9_1 == 37120

\* static const D3D_FEATURE_LEVEL levels[] of get_feature_levels
levels ==
    << D3D_FEATURE_LEVEL_12_1, D3D_FEATURE_LEVEL_12_0, D3D_FEATURE_LEVEL_11_1,
       D3D_FEATURE_LEVEL_11_0, D3D_FEATURE_LEVEL_10_1, D3D_FEATURE_LEVEL_10_0,
       D3D_FEATURE_LEVEL_9_3, D3D_FEATURE_LEVEL_9_2, D3D_FEATURE_LEVEL_9_1 >>

levels_len == Len(levels)

Range(s) == {s[i] : i \in 1..Len(s)}

\* The model cap on the create_device calls of one call (never reached by the
\* code: the ladder is shorter).
MaxAttempts == 14

\* Option values the caller may pass for a feature level: 0 (default), every
\* level of the table, and one value below and one above the table.
OptLevels ==
    {0} \cup Range(levels)
        \cup {D3D_FEATURE_LEVEL_9_1 - 256, D3D_FEATURE_LEVEL_12_1 + 256}

NoDev == [level |-> 0, warp |-> FALSE, bgra |-> FALSE]

\* HRESULTs a failed creation may return
FailCodes == {"E_FAIL", "E_INVALIDARG", "DXGI_ERROR_UNSUPPORTED"}

SUCCEEDED(h) == h = "S_OK"

(***************************************************************************)
(* get_feature_levels: the sub-array of levels[] from max to min.          *)
(* start is the first index whose level is <= max (levels_len + 1 if none),*)
(* len counts the following levels that are >= min.                        *)
(***************************************************************************)
RECURSIVE FirstStart(_, _)
FirstStart(start, max) ==
    IF start <= levels_len /\ ~(levels[start] <= max)
    THEN FirstStart(start + 1, max)
    ELSE start

RECURSIVE CountLen(_, _, _)
CountLen(start, len, min) ==
    IF start + len <= levels_len /\ ~(levels[start + len] < min)
    THEN CountLen(start, len + 1, min)
    ELSE len

get_feature_levels(max, min) ==
    LET start == FirstStart(1, max)
        len == CountLen(start, 0, min)
    IN  SubSeq(levels, start, start + len - 1)

(***************************************************************************)
(* What D3D11CreateDevice may answer for a level array: success at one of  *)
(* the levels of the array, or a failure code.                             *)
(***************************************************************************)
PlatformOutcomes(lv) ==
    {[hr |-> "S_OK", level |-> l] : l \in Range(lv)}
        \cup {[hr |-> e, level |-> 0] : e \in FailCodes}

(***************************************************************************)
(* create_device: E_FAIL without calling the platform when the range is    *)
(* empty, else the platform's answer `out`.                                *)
(***************************************************************************)
create_device(w, b, max, min, out) ==
    LET lv == get_feature_levels(max, min)
    IN  IF Len(lv) = 0
        THEN [called |-> FALSE, hr |-> "E_FAIL", level |-> 0]
        ELSE [called |-> TRUE, hr |-> out.hr, level |-> out.level]

(***************************************************************************)
(* The fallback chosen by the retry loop after a failed attempt            *)
(* (the if-chain of the loop body).                                        *)
(***************************************************************************)
\* Mutant: the WARP retry is not guarded by !warp.
FallbackStepNoWarpGuard(w, b, max, min, o) ==
    IF b THEN "bgra_off"
    ELSE IF max >= D3D_FEATURE_LEVEL_12_0 /\ min <= D3D_FEATURE_LEVEL_11_1
    THEN "cap_11_1"
    ELSE IF max >= D3D_FEATURE_LEVEL_11_1 /\ min <= D3D_FEATURE_LEVEL_11_0
    THEN "cap_11_0"
    ELSE IF o.allow_warp THEN "warp"
    ELSE "fail"

\* Mutant: the capping step to 11_1 tests the wrong level.
FallbackStepCapTypo(w, b, max, min, o) ==
    IF b THEN "bgra_off"
    ELSE IF max >= D3D_FEATURE_LEVEL_11_1 /\ min <= D3D_FEATURE_LEVEL_11_1
    THEN "cap_11_1"
    ELSE IF max >= D3D_FEATURE_LEVEL_11_1 /\ min <= D3D_FEATURE_LEVEL_11_0
    THEN "cap_11_0"
    ELSE IF ~w /\ o.allow_warp THEN "warp"
    ELSE "fail"

FallbackStep(w, b, max, min, o) ==
    IF b THEN "bgra_off"
    ELSE IF max >= D3D_FEATURE_LEVEL_12_0 /\ min <= D3D_FEATURE_LEVEL_11_1
    THEN "cap_11_1"
    ELSE IF max >= D3D_FEATURE_LEVEL_11_1 /\ min <= D3D_FEATURE_LEVEL_11_0
    THEN "cap_11_0"
    ELSE IF ~w /\ o.allow_warp THEN "warp"
    ELSE "fail"

(***************************************************************************)
(* The locals after a fallback step: [warp, bgra, max_fl, min_fl].         *)
(***************************************************************************)
\* Mutant: the WARP switch keeps the capped range instead of the requested one.
StepLocalsWarpKeepsRange(step, w, b, max, min, o) ==
    CASE step = "bgra_off" ->
            [warp |-> w, bgra |-> FALSE, max_fl |-> max, min_fl |-> min]
      [] step = "cap_11_1" ->
            [warp |-> w, bgra |-> TRUE,
             max_fl |-> D3D_FEATURE_LEVEL_11_1, min_fl |-> min]
      [] step = "cap_11_0" ->
            [warp |-> w, bgra |-> TRUE,
             max_fl |-> D3D_FEATURE_LEVEL_11_0, min_fl |-> min]
      [] step = "warp" ->
            [warp |-> TRUE, bgra |-> TRUE, max_fl |-> max, min_fl |-> min]
      [] OTHER ->
            [warp |-> w, bgra |-> b, max_fl |-> max, min_fl |-> min]

\* Mutant: the capping steps do not re-enable BGRA.
StepLocalsCapKeepsBgra(step, w, b, max, min, o) ==
    CASE step = "bgra_off" ->
            [warp |-> w, bgra |-> FALSE, max_fl |-> max, min_fl |-> min]
      [] step = "cap_11_1" ->
            [warp |-> w, bgra |-> b,
             max_fl |-> D3D_FEATURE_LEVEL_11_1, min_fl |-> min]
      [] step = "cap_11_0" ->
            [warp |-> w, bgra |-> b,
             max_fl |-> D3D_FEATURE_LEVEL_11_0, min_fl |-> min]
      [] step = "warp" ->
            [warp |-> TRUE, bgra |-> TRUE,
             max_fl |-> o.max_feature_level, min_fl |-> o.min_feature_level]
      [] OTHER ->
            [warp |-> w, bgra |-> b, max_fl |-> max, min_fl |-> min]

StepLocals(step, w, b, max, min, o) ==
    CASE step = "bgra_off" ->
            [warp |-> w, bgra |-> FALSE, max_fl |-> max, min_fl |-> min]
      [] step = "cap_11_1" ->
            [warp |-> w, bgra |-> TRUE,
             max_fl |-> D3D_FEATURE_LEVEL_11_1, min_fl |-> min]
      [] step = "cap_11_0" ->
            [warp |-> w, bgra |-> TRUE,
             max_fl |-> D3D_FEATURE_LEVEL_11_0, min_fl |-> min]
      [] step = "warp" ->
            [warp |-> TRUE, bgra |-> TRUE,
             max_fl |-> o.max_feature_level, min_fl |-> o.min_feature_level]
      [] OTHER ->
            [warp |-> w, bgra |-> b, max_fl |-> max, min_fl |-> min]

(***************************************************************************)
(* mp_d3d11_create_present_device                                          *)
(***************************************************************************)
DevInit ==
    /\ opts \in [force_warp : BOOLEAN, allow_warp : BOOLEAN,
                 max_feature_level : OptLevels, min_feature_level : OptLevels]
    /\ loaded \in BOOLEAN
    /\ dpc = "start"
    /\ warp = opts.force_warp
    /\ bgra = TRUE
    /\ max_fl = opts.max_feature_level
    /\ min_fl = opts.min_feature_level
    /\ hr = "unset"
    /\ dev = NoDev
    /\ success = FALSE
    /\ dev_out = NoDev
    /\ attempts = <<>>
    /\ steps = <<>>
    /\ lastErr = "none"
    /\ reported = "none"

\* pthread_once(d3d11_load) and the check of pD3D11CreateDevice
LoadD3D11 ==
    /\ dpc = "start"
    /\ dpc' = IF loaded THEN "loop" ELSE "done"
    /\ UNCHANGED <<opts, loaded, warp, bgra, max_fl, min_fl, hr, dev, success,
                   dev_out, attempts, steps, lastErr, reported>>
    /\ UNCHANGED otherThanDev

\* One iteration of the retry loop: defaults, create_device, and on failure
\* the fallback step (or the final mp_fatal).
CreateAttempt ==
    /\ dpc = "loop"
    /\ Len(attempts) < MaxAttempts
    /\ LET max == IF max_fl # 0 THEN max_fl ELSE D3D_FEATURE_LEVEL_11_0
           min == IF min_fl # 0 THEN min_fl ELSE D3D_FEATURE_LEVEL_9_1
       IN  \E out \in PlatformOutcomes(get_feature_levels(max, min)) :
             LET r == create_device(warp, bgra, max, min, out)
                 step == FallbackStep(warp, bgra, max, min, opts)
                 nl == StepLocals(step, warp, bgra, max, min, opts)
             IN  /\ attempts' = Append(attempts,
                        [warp |-> warp, bgra |-> bgra, max_fl |-> max,
                         min_fl |-> min, called |-> r.called,
                         ok |-> SUCCEEDED(r.hr)])
                 /\ hr' = r.hr
                 /\ IF SUCCEEDED(r.hr)
                    THEN /\ dev' = [level |-> r.level, warp |-> warp,
                                    bgra |-> bgra]
                         /\ dpc' = "post"
                         /\ max_fl' = max
                         /\ min_fl' = min
                         /\ UNCHANGED <<warp, bgra, steps, lastErr, reported>>
                    ELSE /\ lastErr' = r.hr
                         /\ warp' = nl.warp
                         /\ bgra' = nl.bgra
                         /\ max_fl' = nl.max_fl
                         /\ min_fl' = nl.min_fl
                         /\ IF step = "fail"
                            THEN /\ reported' = r.hr
                                 /\ dpc' = "done"
                                 /\ steps' = steps
                            ELSE /\ steps' = Append(steps,
                                        [step |-> step, warp |-> warp,
                                         max_fl |-> max])
                                 /\ UNCHANGED <<reported, dpc>>
                         /\ UNCHANGED dev
    /\ UNCHANGED <<opts, loaded, success, dev_out>>
    /\ UNCHANGED otherThanDev

\* After the loop: the DXGI queries (each may fail), the software adapter
\* detection, and the hand-over of the device.
PostOutcomes == {"qi_failed", "parent_failed", "desc_failed", "hardware",
                 "software"}

FinishDevice ==
    /\ dpc = "post"
    /\ \E p \in PostOutcomes :
         IF p \in {"qi_failed", "parent_failed", "desc_failed"}
         THEN /\ hr' = "E_FAIL"
              /\ dev' = NoDev
              /\ UNCHANGED <<warp, success, dev_out>>
         ELSE /\ warp' = (warp \/ p = "software")
              /\ dev_out' = dev
              /\ dev' = NoDev
              /\ success' = TRUE
              /\ UNCHANGED hr
    /\ dpc' = "done"
    /\ UNCHANGED <<opts, loaded, bgra, max_fl, min_fl, attempts, steps,
                   lastErr, reported>>
    /\ UNCHANGED otherThanDev

\* The state of mp_d3d11_create_present_device when it is not exercised
DevIdle ==
    /\ opts = [force_warp |-> FALSE, allow_warp |-> FALSE,
               max_feature_level |-> 0, min_feature_level |-> 0]
    /\ loaded = FALSE
    /\ dpc = "done"
    /\ warp = FALSE
    /\ bgra = TRUE
    /\ max_fl = 0
    /\ min_fl = 0
    /\ hr = "unset"
    /\ dev = NoDev
    /\ success = FALSE
    /\ dev_out = NoDev
    /\ attempts = <<>>
    /\ steps = <<>>
    /\ lastErr = "none"
    /\ reported = "none"

NextDev ==
    \/ LoadD3D11
    \/ CreateAttempt
    \/ FinishDevice


(***************************************************************************)
(* Properties of mp_d3d11_create_present_device                            *)
(***************************************************************************)
\* The requested range after defaulting 0 to 11_0 / 9_1
ReqMax == IF opts.max_feature_level # 0 THEN opts.max_feature_level
          ELSE D3D_FEATURE_LEVEL_11_0
ReqMin == IF opts.min_feature_level # 0 THEN opts.min_feature_level
          ELSE D3D_FEATURE_LEVEL_9_1

AttemptsOf(w) == {i \in 1..Len(attempts) : attempts[i].warp = w}
FailedAttempts == {i \in 1..Len(attempts) : ~attempts[i].ok}
StepsNamed(n) == {i \in 1..Len(steps) : steps[i].step = n}
LoopExited == dpc \in {"post", "done"} /\ loaded

\* The max levels the fallback ladder visits for one driver type
LadderMaxes ==
    <<ReqMax>>
    \o (IF ReqMax >= D3D_FEATURE_LEVEL_12_0 /\ ReqMin <= D3D_FEATURE_LEVEL_11_1
        THEN <<D3D_FEATURE_LEVEL_11_1>> ELSE <<>>)
    \o (IF ReqMax >= D3D_FEATURE_LEVEL_11_1 /\ ReqMin <= D3D_FEATURE_LEVEL_11_0
        THEN <<D3D_FEATURE_LEVEL_11_0>> ELSE <<>>)

\* The full ladder of one driver type: each max level with BGRA, then without
Ladder ==
    [i \in 1..(2 * Len(LadderMaxes)) |->
        [max_fl |-> LadderMaxes[(i + 1) \div 2], bgra |-> (i % 2 = 1)]]

C1_Bound ==
    /\ Len(attempts) <= 12
    /\ Cardinality(AttemptsOf(FALSE)) <= 6
    /\ Cardinality(AttemptsOf(TRUE)) <= 6
    /\ (StepsNamed("warp") = {} => Len(attempts) <= 6)
    /\ \A i \in 1..Len(attempts) :
          attempts[i].max_fl \in
              {ReqMax, D3D_FEATURE_LEVEL_11_1, D3D_FEATURE_LEVEL_11_0}
    /\ \A w \in BOOLEAN :
          Cardinality({attempts[i].max_fl : i \in AttemptsOf(w)}) <= 3

\* C1: for every option setting and every pattern of platform success and
\* failure the retry loop terminates, after at most 6 create_device attempts
\* per driver type (three max levels, each with BGRA on then off), at most 12
\* in a call with the WARP restart and at most 6 otherwise.
C1_BoundedNegotiation == [](C1_Bound) /\ <>(dpc = "done")

C1_Witness ==
    dpc = "done" /\ Len(attempts) = 12 /\ Cardinality(StepsNamed("warp")) = 1

\* The requested range contains no level of the table
RangeEmpty == ~ \E i \in 1..levels_len : ReqMin <= levels[i] /\ levels[i] <= ReqMax

\* C2 (as claimed): with a requested range that contains no table level the
\* call returns false, never invokes D3D11CreateDevice, and takes no fallback
\* step before it returns.
C2_FailsImmediately ==
    RangeEmpty =>
        /\ (dpc = "done" => ~success)
        /\ \A i \in 1..Len(attempts) : ~attempts[i].called
        /\ steps = <<>>
        /\ Len(attempts) <= 1

\* The part of C2 the code does keep: no platform call, and failure.
C2_NoPlatformCall ==
    RangeEmpty =>
        /\ (dpc = "done" => ~success)
        /\ \A i \in 1..Len(attempts) : ~attempts[i].called

\* C4: a WARP attempt is made only with force_warp, or with allow_warp after
\* the whole hardware ladder has failed; the switch happens once, the attempt
\* after it uses the originally requested range with BGRA on, and no hardware
\* attempt follows a WARP attempt; without force_warp and allow_warp there
\* is no WARP attempt.
C4_WarpPolicy ==
    /\ \A i \in 1..Len(attempts) :
          attempts[i].warp =>
              \/ opts.force_warp
              \/ /\ opts.allow_warp
                 /\ \E k \in 1..(i - 1) :
                       /\ k = Len(Ladder)
                       /\ \A j \in 1..k :
                             /\ ~attempts[j].warp
                             /\ ~attempts[j].ok
                             /\ attempts[j].max_fl = Ladder[j].max_fl
                             /\ attempts[j].bgra = Ladder[j].bgra
                       /\ \A j \in (k + 1)..i : attempts[j].warp
    /\ Cardinality(StepsNamed("warp")) <= 1
    /\ (opts.force_warp => StepsNamed("warp") = {})
    /\ \A i \in 2..Len(attempts) :
          (attempts[i].warp /\ ~attempts[i - 1].warp) =>
              /\ attempts[i].max_fl = ReqMax
              /\ attempts[i].min_fl = ReqMin
              /\ attempts[i].bgra
    /\ \A i \in 1..Len(attempts) :
          \A j \in i..Len(attempts) : attempts[i].warp => attempts[j].warp
    /\ (~opts.force_warp /\ ~opts.allow_warp) => AttemptsOf(TRUE) = {}

C4_Witness ==
    /\ dpc = "done" /\ success /\ dev_out.warp
    /\ ~opts.force_warp
    /\ Len(LadderMaxes) = 3
    /\ Cardinality(AttemptsOf(FALSE)) = 6

(***************************************************************************)
(* The scenario of C5: range [tier_A, tier_1], no force_warp, and a device *)
(* that is created only when the level array starts at tier_B and BGRA is  *)
(* off.                                                                    *)
(***************************************************************************)
SafeTiers == {D3D_FEATURE_LEVEL_11_1, D3D_FEATURE_LEVEL_11_0}

OnlyAt(B) ==
    /\ loaded /\ ~opts.force_warp
    /\ opts.max_feature_level # 0
    /\ B \in SafeTiers /\ ReqMin < B /\ B < ReqMax
    /\ \A i \in 1..Len(attempts) :
          attempts[i].ok <=> (attempts[i].max_fl = B /\ ~attempts[i].bgra)
    /\ dev # NoDev => dev.level = B

CreatedAt(B) ==
    /\ attempts # <<>>
    /\ attempts[Len(attempts)].ok
    /\ attempts[Len(attempts)].max_fl = B
    /\ ~attempts[Len(attempts)].bgra
    /\ ~attempts[Len(attempts)].warp

\* C5 (as claimed): the device is created at tier_B without BGRA after
\* exactly 2 failed attempts, both at max level tier_A.
C5_TwoFailedAttempts ==
    \A B \in SafeTiers :
        (LoopExited /\ OnlyAt(B)) =>
            /\ CreatedAt(B)
            /\ Cardinality(FailedAttempts) = 2
            /\ \A i \in FailedAttempts : attempts[i].max_fl = ReqMax

\* C5 (amended): the device is created at tier_B without BGRA by the hardware
\* driver after every step of the ladder above it failed: two failed
\* attempts (with BGRA, then without) at each max level the ladder visits
\* above tier_B, and one more failed attempt at tier_B with BGRA re-enabled;
\* 3 failed attempts when tier_B is the first cap below tier_A, 5 when the
\* ladder passes 11_1 on the way to 11_0.
C5_LadderToTierB ==
    \A B \in SafeTiers :
        (LoopExited /\ OnlyAt(B)) =>
            /\ CreatedAt(B)
            /\ LET n == Len(attempts)
                   above == {i \in 1..Len(LadderMaxes) : LadderMaxes[i] > B}
               IN  /\ n = 2 * Cardinality(above) + 2
                   /\ FailedAttempts = 1..(n - 1)
                   /\ \A i \in 1..n :
                         /\ attempts[i].max_fl = Ladder[i].max_fl
                         /\ attempts[i].bgra = Ladder[i].bgra
                   /\ attempts[n - 1].max_fl = B /\ attempts[n - 1].bgra
                   /\ Cardinality(FailedAttempts) \in {3, 5}
                   /\ (Cardinality(FailedAttempts) = 3) <=>
                          (LadderMaxes[2] = B)
            /\ (dpc = "done" => (success <=> hr = "S_OK"))

C5_Witness ==
    /\ dpc = "done" /\ success /\ OnlyAt(D3D_FEATURE_LEVEL_11_1)
    /\ Len(attempts) = 4
    /\ dev_out = [level |-> D3D_FEATURE_LEVEL_11_1, warp |-> FALSE,
                  bgra |-> FALSE]

\* C10 (as claimed): each fallback step (BGRA off, cap to 11_1, cap to 11_0,
\* WARP switch) is taken at most once in a call, and on exhaustion the
\* reported error code is that of the last failed attempt.
C10_EachStepOnce ==
    /\ \A n \in {"bgra_off", "cap_11_1", "cap_11_0", "warp"} :
          Cardinality(StepsNamed(n)) <= 1
    /\ (reported # "none" => reported = lastErr)

\* C10 (amended): the WARP switch is taken at most once in a call; each
\* capping step at most once per driver type; the BGRA-off retry at most
\* once per driver type and max level (so at most 3 times per driver type
\* and 6 times in a call); failure is reported exactly when the last
\* attempt failed with no step left, with that attempt's error code.
C10_StepsOncePerSetting ==
    /\ Cardinality(StepsNamed("warp")) <= 1
    /\ \A i, j \in 1..Len(steps) : i # j => steps[i] # steps[j]
    /\ \A n \in {"cap_11_1", "cap_11_0"} : \A w \in BOOLEAN :
          Cardinality({i \in StepsNamed(n) : steps[i].warp = w}) <= 1
    /\ \A w \in BOOLEAN :
          Cardinality({i \in StepsNamed("bgra_off") : steps[i].warp = w}) <= 3
    /\ Cardinality(StepsNamed("bgra_off")) <= 6
    /\ (dpc = "done" /\ loaded /\ ~attempts[Len(attempts)].ok) <=>
           reported # "none"
    /\ reported # "none" =>
          /\ reported = lastErr /\ reported = hr /\ ~success
          /\ Len(steps) = Len(attempts) - 1
          /\ Len(attempts) =
                Len(Ladder) * (IF ~opts.force_warp /\ opts.allow_warp
                               THEN 2 ELSE 1)

C10_Witness ==
    /\ reported = "E_INVALIDARG"
    /\ Cardinality(StepsNamed("bgra_off")) = 6
    /\ Cardinality(StepsNamed("cap_11_1")) = 2

(***************************************************************************)
(* mp_d3d11_create_swapchain                                               *)
(***************************************************************************)
\* static const DXGI_FORMAT formats[]
formats == <<"B8G8R8A8_UNORM", "R8G8B8A8_UNORM">>

formats_len == Len(formats)

\* The largest opts->length the model passes
MaxLength == 3

NoSwapchain == [effect |-> "none", format |-> "none", buffers |-> 0,
                width |-> 0, height |-> 0, samples |-> 0]

\* What the platform may answer to one swapchain creation: DXGI 1.2 creation
\* is CreateSwapChainForHwnd followed by QueryInterface, DXGI 1.1 creation is
\* CreateSwapChain alone.
PlatformSwapOutcomes(f2) ==
    IF f2 THEN {"ok", "create_failed", "qi_failed"}
    ELSE {"ok", "create_failed"}

\* create_swapchain_1_2: the swap effect and buffer count follow flip
create_swapchain_1_2(o, fl, format, out) ==
    LET desc == [effect |-> IF fl THEN "FLIP_SEQUENTIAL" ELSE "DISCARD",
                 format |-> format,
                 buffers |-> IF fl THEN o.length ELSE 1,
                 width |-> IF o.width # 0 THEN o.width ELSE 1,
                 height |-> IF o.height # 0 THEN o.height ELSE 1,
                 samples |-> 1]
    IN  IF out = "ok" THEN [hr |-> "S_OK", swapchain |-> desc]
        ELSE IF out = "qi_failed"
        THEN [hr |-> "E_NOINTERFACE", swapchain |-> NoSwapchain]
        ELSE [hr |-> "E_FAIL", swapchain |-> NoSwapchain]

\* create_swapchain_1_1: always a discard swapchain with one buffer
create_swapchain_1_1(o, format, out) ==
    LET desc == [effect |-> "DISCARD",
                 format |-> format,
                 buffers |-> 1,
                 width |-> IF o.width # 0 THEN o.width ELSE 1,
                 height |-> IF o.height # 0 THEN o.height ELSE 1,
                 samples |-> 1]
    IN  IF out = "ok" THEN [hr |-> "S_OK", swapchain |-> desc]
        ELSE [hr |-> "E_FAIL", swapchain |-> NoSwapchain]

\* The for loop over formats[] from index i: stops at the first success.
\* outs[i] is the platform's answer to the attempt with formats[i].
RECURSIVE TryFormats(_, _, _, _, _, _)
TryFormats(i, o, f2, fl, outs, acc) ==
    IF i > formats_len THEN acc
    ELSE LET r == IF f2 THEN create_swapchain_1_2(o, fl, formats[i], outs[i])
                  ELSE create_swapchain_1_1(o, formats[i], outs[i])
             a == [flip |-> f2 /\ fl, dxgi12 |-> f2, format |-> formats[i],
                   ok |-> SUCCEEDED(r.hr)]
             acc2 == [hr |-> r.hr, swapchain |-> r.swapchain,
                      tried |-> Append(acc.tried, a)]
         IN  IF SUCCEEDED(r.hr) THEN acc2
             ELSE TryFormats(i + 1, o, f2, fl, outs, acc2)

\* After a round in which every format failed: retry in bitblt mode?
RetryBitblt(fl) == fl

\* Mutant: flip is taken from the options alone.
InitialFlipIgnoresFactory(f2, o) == o.flip

\* bool flip = factory2 && opts->flip
InitialFlip(f2, o) == f2 /\ o.flip

SwapInit ==
    /\ sopts \in [flip : BOOLEAN, length : 1..MaxLength,
                  width : {0, 640}, height : {0, 480}]
    /\ spc = "start"
    /\ factory2 = FALSE
    /\ flip = FALSE
    /\ shr = "unset"
    /\ swapchain = NoSwapchain
    /\ swapchain_out = NoSwapchain
    /\ ssuccess = FALSE
    /\ sattempts = <<>>

SwapIdle ==
    /\ sopts = [flip |-> FALSE, length |-> 1, width |-> 0, height |-> 0]
    /\ spc = "done"
    /\ factory2 = FALSE
    /\ flip = FALSE
    /\ shr = "unset"
    /\ swapchain = NoSwapchain
    /\ swapchain_out = NoSwapchain
    /\ ssuccess = FALSE
    /\ sattempts = <<>>

\* The DXGI device, adapter and factory queries (each may fail, ending the
\* call), the optional IDXGIFactory2 query, and the initial flip.
PreOutcomes == {"qi_failed", "adapter_failed", "factory_failed",
                "dxgi_1_1", "dxgi_1_2"}

GetFactory ==
    /\ spc = "start"
    /\ \E p \in PreOutcomes :
         IF p \in {"qi_failed", "adapter_failed", "factory_failed"}
         THEN /\ shr' = "E_FAIL"
              /\ spc' = "done"
              /\ UNCHANGED <<factory2, flip>>
         ELSE /\ shr' = IF p = "dxgi_1_2" THEN "S_OK" ELSE "E_NOINTERFACE"
              /\ factory2' = (p = "dxgi_1_2")
              /\ flip' = InitialFlip(p = "dxgi_1_2", sopts)
              /\ spc' = "loop"
    /\ UNCHANGED <<sopts, swapchain, swapchain_out, ssuccess, sattempts>>
    /\ UNCHANGED otherThanSwap

\* One iteration of the retry loop: every format in order, then on failure
\* the switch to bitblt or the final mp_fatal.
CreateRound ==
    /\ spc = "loop"
    /\ \E outs \in [1..formats_len -> PlatformSwapOutcomes(factory2)] :
         LET r == TryFormats(1, sopts, factory2, flip, outs,
                             [hr |-> shr, swapchain |-> swapchain,
                              tried |-> <<>>])
         IN  /\ sattempts' = sattempts \o r.tried
             /\ shr' = r.hr
             /\ swapchain' = r.swapchain
             /\ IF SUCCEEDED(r.hr)
                THEN spc' = "post" /\ UNCHANGED flip
                ELSE IF RetryBitblt(flip)
                THEN flip' = FALSE /\ UNCHANGED spc
                ELSE spc' = "done" /\ UNCHANGED flip
    /\ UNCHANGED <<sopts, factory2, swapchain_out, ssuccess>>
    /\ UNCHANGED otherThanSwap

\* After the loop: MakeWindowAssociation, the log lines, and the hand-over
FinishSwapchain ==
    /\ spc = "post"
    /\ swapchain_out' = swapchain
    /\ swapchain' = NoSwapchain
    /\ ssuccess' = TRUE
    /\ spc' = "done"
    /\ UNCHANGED <<sopts, factory2, flip, shr, sattempts>>
    /\ UNCHANGED otherThanSwap

NextSwap ==
    \/ GetFactory
    \/ CreateRound
    \/ FinishSwapchain

(***************************************************************************)
(* Properties of mp_d3d11_create_swapchain                                 *)
(***************************************************************************)
FlipAttempts == {i \in 1..Len(sattempts) : sattempts[i].flip}
LegacyAttempts == {i \in 1..Len(sattempts) : ~sattempts[i].flip}

ShotObjects == {"frontbuffer", "staging", "ctx", "dev"}

NoImage == [imgfmt |-> "none", w |-> 0, h |-> 0]

\* Swap effects and front buffer formats and sample counts a swapchain
\* handed to the call may have
SwapEffects == {"DISCARD", "SEQUENTIAL", "FLIP_SEQUENTIAL", "FLIP_DISCARD"}
BufferFormats == {"B8G8R8A8_UNORM", "R8G8B8A8_UNORM", "R10G10B10A2_UNORM",
                  "R16G16B16A16_FLOAT"}
SampleCounts == {1, 2, 4}

\* scd.SwapEffect != DXGI_SWAP_EFFECT_FLIP_SEQUENTIAL -> goto done
SwapEffectOk(e) == e = "FLIP_SEQUENTIAL"

\* td.SampleDesc.Count > 1 -> goto done
SampleCountOk(n) == ~(n > 1)

\* Mutant: the format switch has a default that falls through as BGR0.
ImgfmtOfDefaultBgr0(f) ==
    CASE f = "B8G8R8A8_UNORM" -> "IMGFMT_BGR0"
      [] f = "R8G8B8A8_UNORM" -> "IMGFMT_RGB0"
      [] OTHER -> "IMGFMT_BGR0"

\* The switch on td.Format: the image format, or "none" (goto done)
ImgfmtOf(f) ==
    CASE f = "B8G8R8A8_UNORM" -> "IMGFMT_BGR0"
      [] f = "R8G8B8A8_UNORM" -> "IMGFMT_RGB0"
      [] OTHER -> "none"

\* SAFE_RELEASE of every object in objs: Release if held, and forget it
SafeRelease(r, objs) == [o \in ShotObjects |-> IF o \in objs THEN 0 ELSE r[o]]
CountReleases(c, r, objs) ==
    [o \in ShotObjects |-> IF o \in objs /\ r[o] > 0 THEN c[o] + 1 ELSE c[o]]

ShotInit ==
    /\ shot_sc \in [effect : SwapEffects, buffers : 1..MaxLength,
                    format : BufferFormats, samples : SampleCounts,
                    width : {1, 640}, height : {1, 480}]
    /\ shpc = "start"
    /\ refs = [o \in ShotObjects |-> 0]
    /\ released = [o \in ShotObjects |-> 0]
    /\ fmt = "unset"
    /\ staged = FALSE
    /\ copied = FALSE
    /\ mapped = FALSE
    /\ img = NoImage
    /\ ret = NoImage

ShotIdle ==
    /\ shot_sc = [effect |-> "DISCARD", buffers |-> 1,
                  format |-> "B8G8R8A8_UNORM", samples |-> 1,
                  width |-> 1, height |-> 1]
    /\ shpc = "returned"
    /\ refs = [o \in ShotObjects |-> 0]
    /\ released = [o \in ShotObjects |-> 0]
    /\ fmt = "unset"
    /\ staged = FALSE
    /\ copied = FALSE
    /\ mapped = FALSE
    /\ img = NoImage
    /\ ret = NoImage

\* IDXGISwapChain_GetDesc (may fail) and the swap effect check
ValidateSwapchain ==
    /\ shpc = "start"
    /\ \E ok \in BOOLEAN :
         shpc' = IF ok /\ SwapEffectOk(shot_sc.effect) THEN "frontbuffer"
                 ELSE "cleanup"
    /\ UNCHANGED <<shot_sc, refs, released, fmt, staged, copied, mapped, img,
                   ret>>
    /\ UNCHANGED otherThanShot

\* GetBuffer (may fail), GetDevice, GetImmediateContext, and the checks of
\* the sample count and the format
GetFrontbuffer ==
    /\ shpc = "frontbuffer"
    /\ \E ok \in BOOLEAN :
         IF ~ok
         THEN /\ shpc' = "cleanup"
              /\ UNCHANGED <<refs, fmt>>
         ELSE /\ refs' = [refs EXCEPT !["frontbuffer"] = 1, !["dev"] = 1,
                                      !["ctx"] = 1]
              /\ IF ~SampleCountOk(shot_sc.samples)
                 THEN shpc' = "cleanup" /\ UNCHANGED fmt
                 ELSE IF ImgfmtOf(shot_sc.format) = "none"
                 THEN shpc' = "cleanup" /\ UNCHANGED fmt
                 ELSE shpc' = "staging" /\ fmt' = ImgfmtOf(shot_sc.format)
    /\ UNCHANGED <<shot_sc, released, staged, copied, mapped, img, ret>>
    /\ UNCHANGED otherThanShot

\* CreateTexture2D of the staging texture (may fail) and CopyResource
CreateStaging ==
    /\ shpc = "staging"
    /\ \E ok \in BOOLEAN :
         IF ~ok
         THEN /\ shpc' = "cleanup"
              /\ UNCHANGED <<refs, staged, copied>>
         ELSE /\ refs' = [refs EXCEPT !["staging"] = 1]
              /\ staged' = TRUE
              /\ copied' = TRUE
              /\ shpc' = "map"
    /\ UNCHANGED <<shot_sc, released, fmt, mapped, img, ret>>
    /\ UNCHANGED otherThanShot

\* ID3D11DeviceContext_Map of the staging texture (may fail)
MapStaging ==
    /\ shpc = "map"
    /\ \E ok \in BOOLEAN :
         IF ~ok
         THEN shpc' = "cleanup" /\ UNCHANGED mapped
         ELSE shpc' = "copy" /\ mapped' = TRUE
    /\ UNCHANGED <<shot_sc, refs, released, fmt, staged, copied, img, ret>>
    /\ UNCHANGED otherThanShot

\* mp_image_alloc (on failure: return NULL at once), the row copy, Unmap
CopyImage ==
    /\ shpc = "copy"
    /\ \E ok \in BOOLEAN :
         IF ~ok
         THEN /\ ret' = NoImage
              /\ shpc' = "returned"
              /\ UNCHANGED <<img, mapped>>
         ELSE /\ img' = [imgfmt |-> fmt, w |-> shot_sc.width,
                         h |-> shot_sc.height]
              /\ mapped' = FALSE
              /\ shpc' = "cleanup"
              /\ UNCHANGED ret
    /\ UNCHANGED <<shot_sc, refs, released, fmt, staged, copied>>
    /\ UNCHANGED otherThanShot

\* done: SAFE_RELEASE of the four objects, return img
ReleaseAndReturn ==
    /\ shpc = "cleanup"
    /\ released' = CountReleases(released, refs, ShotObjects)
    /\ refs' = SafeRelease(refs, ShotObjects)
    /\ ret' = img
    /\ shpc' = "returned"
    /\ UNCHANGED <<shot_sc, fmt, staged, copied, mapped, img>>
    /\ UNCHANGED otherThanShot

NextShot ==
    \/ ValidateSwapchain
    \/ GetFrontbuffer
    \/ CreateStaging
    \/ MapStaging
    \/ CopyImage
    \/ ReleaseAndReturn

(***************************************************************************)
(* Properties of mp_d3d11_screenshot                                       *)
(***************************************************************************)
Unsupported ==
    \/ shot_sc.effect # "FLIP_SEQUENTIAL"
    \/ shot_sc.samples > 1
    \/ shot_sc.format \notin {"B8G8R8A8_UNORM", "R8G8B8A8_UNORM"}

\* C6: no image is returned for a swapchain that is not FLIP_SEQUENTIAL, for
\* a front buffer with more than one sample, or for a format other than
\* B8G8R8A8_UNORM and R8G8B8A8_UNORM, and in these cases no staging texture
\* is created and nothing is copied; a returned image is BGR0 for B8G8R8A8
\* and RGB0 for R8G8B8A8.
C6_ScreenshotRejects ==
    /\ Unsupported =>
          /\ ret = NoImage /\ img = NoImage
          /\ ~staged /\ ~copied /\ ~mapped
          /\ refs["staging"] = 0
    /\ ret # NoImage =>
          /\ shpc = "returned"
          /\ \/ shot_sc.format = "B8G8R8A8_UNORM" /\ ret.imgfmt = "IMGFMT_BGR0"
             \/ shot_sc.format = "R8G8B8A8_UNORM" /\ ret.imgfmt = "IMGFMT_RGB0"
          /\ ret.w = shot_sc.width /\ ret.h = shot_sc.height
          /\ staged /\ copied

C6_Witness ==
    /\ shpc = "returned" /\ ret = NoImage
    /\ shot_sc.effect = "FLIP_SEQUENTIAL" /\ shot_sc.samples = 1
    /\ shot_sc.format = "R10G10B10A2_UNORM"
    /\ released["frontbuffer"] = 1


(***************************************************************************)
(* hwdec_osx.c: the VideoToolbox frame mapper                              *)
(***************************************************************************)
\* MP_MAX_PLANES (video/img_format.h), the size of gl_planes
MP_MAX_PLANES == 4

\* Buffers are 1..MaxBuf (0 is the NULL buffer); GL names are 1..MaxName
MaxBuf == 2
MaxName == 5
\* mapCount saturates here
MaxMaps == 2

\* static struct vt_format vt_formats[]
vt_formats == <<
    [cvpixfmt |-> "420YpCbCr8BiPlanarVideoRange", imgfmt |-> "IMGFMT_NV12",
     planes |-> 2,
     gl |-> <<<<"GL_RED", "GL_UNSIGNED_BYTE", "GL_RED">>,
              <<"GL_RG", "GL_UNSIGNED_BYTE", "GL_RG">>>>,
     swizzle |-> ""],
    [cvpixfmt |-> "422YpCbCr8", imgfmt |-> "IMGFMT_UYVY",
     planes |-> 1,
     gl |-> <<<<"GL_RGB_422_APPLE", "GL_UNSIGNED_SHORT_8_8_APPLE", "GL_RGB">>>>,
     swizzle |-> "gbra"],
    [cvpixfmt |-> "420YpCbCr8Planar", imgfmt |-> "IMGFMT_420P",
     planes |-> 3,
     gl |-> <<<<"GL_RED", "GL_UNSIGNED_BYTE", "GL_RED">>,
              <<"GL_RED", "GL_UNSIGNED_BYTE", "GL_RED">>,
              <<"GL_RED", "GL_UNSIGNED_BYTE", "GL_RED">>>>,
     swizzle |-> ""],
    [cvpixfmt |-> "32BGRA", imgfmt |-> "IMGFMT_BGR0",
     planes |-> 1,
     gl |-> <<<<"GL_BGRA", "GL_UNSIGNED_INT_8_8_8_8_REV", "GL_RGBA">>>>,
     swizzle |-> ""] >>

\* Pixel formats a buffer may report: the table's and two others
CvPixelFormats ==
    {vt_formats[i].cvpixfmt : i \in 1..Len(vt_formats)}
        \cup {"32ARGB", "420YpCbCr8BiPlanarFullRange"}

\* Mutant: an unknown format falls back to the first entry.
RECURSIVE vt_get_gl_format_default(_, _)
vt_get_gl_format_default(i, cvpixfmt) ==
    IF i > Len(vt_formats) THEN 1
    ELSE IF vt_formats[i].cvpixfmt = cvpixfmt THEN i
    ELSE vt_get_gl_format_default(i + 1, cvpixfmt)

\* vt_get_gl_format: the index of the first entry with this cvpixfmt from i
\* on, 0 (NULL) when there is none
RECURSIVE vt_get_gl_format(_, _)
vt_get_gl_format(i, cvpixfmt) ==
    IF i > Len(vt_formats) THEN 0
    ELSE IF vt_formats[i].cvpixfmt = cvpixfmt THEN i
    ELSE vt_get_gl_format(i + 1, cvpixfmt)

\* Mutant: the disjunction grouped under planar.
PlaneCheckGrouped(planar, planes, fplanes) ==
    planar /\ (planes = fplanes \/ fplanes = 1)

\* The expression of the assert in map_frame
PlaneCheck(planar, planes, fplanes) ==
    (planar /\ planes = fplanes) \/ fplanes = 1

\* Mutant: every plane reports the texture of slot 0.
PlaneTextureFirst(gp, i) == gp[1]

\* .gl_texture = p->gl_planes[i]
PlaneTexture(gp, i) == gp[i]

NoPlane == [gl_texture |-> 0, gl_target |-> "none"]

\* The struct gl_hwdec_frame the caller hands to map_frame (cleared)
ClearedFrame == [planes |-> [i \in 1..MP_MAX_PLANES |-> NoPlane],
                 swizzle |-> ""]

\* The record of a buffer of which map_frame has read nothing
NotRead == [surface |-> FALSE, cvpixfmt |-> "none", planar |-> FALSE,
            planes |-> 0]

\* CVPixelBufferRelease / CVPixelBufferRetain (no-ops on NULL)
Release(r, b) == IF b = 0 THEN r ELSE [r EXCEPT ![b] = r[b] - 1]
Retain(r, b) == IF b = 0 THEN r ELSE [r EXCEPT ![b] = r[b] + 1]

MapInit ==
    /\ hwpc = "none"
    /\ gl_planes = [i \in 1..MP_MAX_PLANES |-> 0]
    /\ pbuf = 0
    /\ glTextures = {}
    /\ texSurface = [n \in 1..MaxName |-> 0]
    /\ retained = [b \in 1..MaxBuf |-> 0]
    /\ out_frame = ClearedFrame
    /\ map_ret = 0
    /\ last_op = "none"
    /\ last_call = NotRead
    /\ genNames = [i \in 1..MP_MAX_PLANES |-> 0]
    /\ mapCount = 0

MapIdle == MapInit

\* create: check_hwdec, talloc_zero of priv, GenTextures
create ==
    /\ hwpc \in {"none", "destroyed"}
    /\ \E gl_ok \in BOOLEAN, cgl_ok \in BOOLEAN :
         IF ~(gl_ok /\ cgl_ok)
         THEN /\ map_ret' = -1
              /\ UNCHANGED <<hwpc, gl_planes, pbuf, glTextures, genNames,
                             mapCount>>
         ELSE \E base \in 1..(MaxName - MP_MAX_PLANES + 1) :
                LET names == [i \in 1..MP_MAX_PLANES |-> base + i - 1]
                IN  /\ \A i \in 1..MP_MAX_PLANES : names[i] \notin glTextures
                    /\ gl_planes' = names
                    /\ genNames' = names
                    /\ glTextures' = glTextures \cup Range(names)
                    /\ pbuf' = 0
                    /\ hwpc' = "created"
                    /\ map_ret' = 0
                    /\ mapCount' = 0
    /\ last_op' = "create"
    /\ UNCHANGED <<texSurface, retained, out_frame, last_call>>
    /\ UNCHANGED otherThanMap

\* The plane loop of map_frame: texture i is bound to the surface of buffer
\* b unless CGLTexImageIOSurface2D failed for that plane (errs)
BindPlanes(ts, gp, fplanes, b, errs) ==
    [n \in 1..MaxName |->
        IF \E i \in 1..fplanes : gp[i] = n /\ i \notin errs THEN b ELSE ts[n]]

WritePlanes(gp, fplanes) ==
    [i \in 1..MP_MAX_PLANES |->
        IF i <= fplanes
        THEN [gl_texture |-> PlaneTexture(gp, i),
              gl_target |-> "GL_TEXTURE_RECTANGLE"]
        ELSE NoPlane]

\* map_frame with buffer b, which has a surface or not and reports pixel
\* format cvpixfmt (the NULL buffer has neither); planar and planes are what
\* the buffer reports when map_frame gets to ask
map_frame ==
    /\ hwpc = "created"
    /\ \E b \in 0..MaxBuf, surface \in BOOLEAN,
          cvpixfmt \in CvPixelFormats \cup {"none"} :
         /\ b = 0 => ~surface
         /\ (b = 0) <=> (cvpixfmt = "none")
         /\ retained' = Retain(Release(retained, pbuf), b)
         /\ pbuf' = b
         /\ last_op' = "map_frame"
         /\ LET f == vt_get_gl_format(1, cvpixfmt)
                given == [NotRead EXCEPT !.surface = surface,
                                         !.cvpixfmt = cvpixfmt]
            IN  IF ~surface \/ f = 0
                THEN /\ map_ret' = -1
                     /\ last_call' = given
                     /\ out_frame' = ClearedFrame
                     /\ UNCHANGED <<hwpc, texSurface, mapCount>>
                ELSE \E planar \in BOOLEAN, planes \in 0..3 :
                       /\ last_call' = [given EXCEPT !.planar = planar,
                                                     !.planes = planes]
                       /\ IF ~PlaneCheck(planar, planes, vt_formats[f].planes)
                          THEN /\ hwpc' = "aborted"
                               /\ out_frame' = ClearedFrame
                               /\ UNCHANGED <<texSurface, map_ret, mapCount>>
                          ELSE \E errs \in SUBSET (1..vt_formats[f].planes) :
                                 /\ texSurface' = BindPlanes(
                                        texSurface, gl_planes,
                                        vt_formats[f].planes, b, errs)
                                 /\ out_frame' =
                                      [planes |-> WritePlanes(gl_planes,
                                            vt_formats[f].planes),
                                       swizzle |-> vt_formats[f].swizzle]
                                 /\ map_ret' = 0
                                 /\ mapCount' = IF mapCount < MaxMaps
                                                THEN mapCount + 1
                                                ELSE mapCount
                                 /\ UNCHANGED hwpc
    /\ UNCHANGED <<gl_planes, glTextures, genNames>>
    /\ UNCHANGED otherThanMap

\* destroy: release the retained buffer, delete the textures
destroy ==
    /\ hwpc = "created"
    /\ retained' = Release(retained, pbuf)
    /\ glTextures' = glTextures \ Range(gl_planes)
    /\ texSurface' = [n \in 1..MaxName |->
                         IF n \in Range(gl_planes) THEN 0 ELSE texSurface[n]]
    /\ hwpc' = "destroyed"
    /\ last_op' = "destroy"
    /\ UNCHANGED <<gl_planes, pbuf, out_frame, map_ret, last_call, genNames,
                   mapCount>>
    /\ UNCHANGED otherThanMap

NextMap ==
    \/ create
    \/ map_frame
    \/ destroy
\* C12 (as claimed): when mp_d3d11_screenshot has returned, on whatever path,
\* it holds no reference to the front buffer, the device, the immediate
\* context or the staging texture, it has released none of them twice, a
\* staging texture it created has been released once, and the staging
\* texture is not mapped.
C12_NothingOutlivesCall ==
    shpc = "returned" =>
        /\ \A o \in ShotObjects : refs[o] = 0 /\ released[o] <= 1
        /\ staged => released["staging"] = 1
        /\ ~mapped

(***************************************************************************)
(* Properties of the frame mapper                                          *)
(***************************************************************************)
BoundBuffers == {texSurface[gl_planes[i]] : i \in 1..MP_MAX_PLANES} \ {0}

\* C7 (as claimed): between calls every texture of the set that is bound to
\* a surface is bound to the surface of the buffer the adapter retains: at
\* most one buffer is bound, and none that the adapter has released.
C7_OneBoundBuffer ==
    hwpc = "created" =>
        /\ Cardinality(BoundBuffers) <= 1
        /\ \A b \in BoundBuffers : b = pbuf /\ retained[b] > 0

TableKeys == {vt_formats[i].cvpixfmt : i \in 1..Len(vt_formats)}

\* C8: a map_frame call whose buffer reports a pixel format that is no key
\* of vt_formats returns -1, binds no texture, changes no texture name and
\* leaves out_frame as it was handed in.
C8_UnknownFormatNoMutation ==
    [][(last_op' = "map_frame" /\ pbuf' # 0
            /\ last_call'.cvpixfmt \notin TableKeys)
        => /\ map_ret' = -1
           /\ texSurface' = texSurface
           /\ gl_planes' = gl_planes
           /\ glTextures' = glTextures
           /\ out_frame' = ClearedFrame
           /\ hwpc' = hwpc]_vars

C8_Witness ==
    /\ last_op = "map_frame" /\ last_call.surface
    /\ last_call.cvpixfmt = "32ARGB"
    /\ map_ret = -1
    /\ mapCount >= 1
    /\ pbuf # 0 /\ BoundBuffers # {} /\ pbuf \notin BoundBuffers

C9_Stable ==
    /\ hwpc = "created" =>
          /\ gl_planes = genNames
          /\ glTextures = Range(genNames)
          /\ \A i, j \in 1..MP_MAX_PLANES : i # j => gl_planes[i] # gl_planes[j]
    /\ (hwpc = "created" /\ last_op = "map_frame" /\ map_ret = 0) =>
          LET f == vt_formats[vt_get_gl_format(1, last_call.cvpixfmt)]
          IN  \A i \in 1..MP_MAX_PLANES :
                 out_frame.planes[i].gl_texture =
                     IF i <= f.planes THEN genNames[i] ELSE 0

\* C9: between create and destroy every successful map_frame reports for
\* plane i the texture name GenTextures gave slot i in create, and map_frame
\* creates and deletes no texture.
C9_StableTextureIdentities ==
    /\ [](C9_Stable)
    /\ [][last_op' = "map_frame" =>
             glTextures' = glTextures /\ gl_planes' = gl_planes]_vars

C9_Witness ==
    /\ hwpc = "created" /\ last_op = "map_frame" /\ map_ret = 0
    /\ mapCount = MaxMaps
    /\ last_call.cvpixfmt = "420YpCbCr8Planar"
    /\ out_frame.planes[3].gl_texture = genNames[3]
    /\ genNames[1] > 1

\* The map_frame calls that got to the plane-count check: the buffer has a
\* surface and its pixel format is a key of vt_formats
ReachedPlaneCheck(c) == c.surface /\ c.cvpixfmt \in TableKeys

EntryPlanes(c) == vt_formats[vt_get_gl_format(1, c.cvpixfmt)].planes

\* Consistency of a buffer with its table entry as the claim states it
ClaimedConsistent(c) ==
    \/ EntryPlanes(c) = 1 /\ ~c.planar
    \/ EntryPlanes(c) > 1 /\ c.planar /\ c.planes = EntryPlanes(c)

\* What the check lets through: any buffer under a single-plane entry, and
\* under a multi-plane entry a planar buffer with the entry's plane count
Admitted(c) ==
    IF EntryPlanes(c) = 1 THEN TRUE
    ELSE c.planar /\ c.planes = EntryPlanes(c)

\* C11 (as claimed): a buffer that gets to the plane-count check of map_frame
\* and is not consistent with its table entry (single-plane entry with a
\* non-planar buffer, multi-plane entry with a planar buffer of the same
\* plane count) fails the assertion.
C11_InconsistentAborts ==
    (last_op = "map_frame" /\ ReachedPlaneCheck(last_call)
        /\ ~ClaimedConsistent(last_call))
    => hwpc = "aborted"

\* C11 (amended): the plane-count check of map_frame lets a buffer through
\* exactly when its table entry has one plane, whatever the buffer reports,
\* or the buffer is planar and reports the plane count of the entry; then
\* map_frame goes on to bind the planes and returns 0.  In every other case
\* the assertion fails, no texture is bound and out_frame is not written.
C11_PlaneCheckAdmits ==
    [][(last_op' = "map_frame" /\ ReachedPlaneCheck(last_call'))
        => IF Admitted(last_call')
           THEN hwpc' = "created" /\ map_ret' = 0
                /\ out_frame'.planes[EntryPlanes(last_call')].gl_texture # 0
           ELSE hwpc' = "aborted" /\ texSurface' = texSurface
                /\ out_frame' = ClearedFrame]_vars

C11_Witness ==
    /\ hwpc = "aborted" /\ last_op = "map_frame"
    /\ last_call.cvpixfmt = "420YpCbCr8BiPlanarVideoRange"
    /\ last_call.planar /\ last_call.planes = 3
    /\ mapCount >= 1 /\ BoundBuffers # {} /\ pbuf \notin BoundBuffers

(***************************************************************************)
(* Specifications, one per entry point                                     *)
(***************************************************************************)
InitDev == DevInit /\ SwapIdle /\ ShotIdle /\ MapIdle

SpecDev == InitDev /\ [][NextDev]_vars

\* The call runs on one thread that keeps running until it returns.
LiveSpecDev == SpecDev /\ WF_vars(NextDev)

InitSwap == SwapInit /\ DevIdle /\ ShotIdle /\ MapIdle

SpecSwap == InitSwap /\ [][NextSwap]_vars

InitShot == ShotInit /\ DevIdle /\ SwapIdle /\ MapIdle

SpecShot == InitShot /\ [][NextShot]_vars

InitMap == MapInit /\ DevIdle /\ SwapIdle /\ ShotIdle

SpecMap == InitMap /\ [][NextMap]_vars

====
